---- MODULE Spec2Model ----
(***************************************************************************)
(* A model of streamlit_dynamic_filters/dynamic_filters.py: the three      *)
(* orchestrator classes (DynamicFilters, DynamicFiltersHierarchical,       *)
(* DynamicFiltersWithGroupby), the keyed session store they share, and one *)
(* display_filters pass taken one loop iteration at a time.                *)
(*                                                                         *)
(* A python dict is an association list (a sequence of <<key, value>>      *)
(* pairs in insertion order); a python list is a sequence; a DataFrame is  *)
(* the sequence of the index labels of its rows, the row of label i being  *)
(* df[i + 1] (the source frame carries the default labels 0..n-1).         *)
(***************************************************************************)
EXTENDS Integers, Sequences, FiniteSets, TLC

VARIABLES
    df,                 \* self.df: the source rows
    variant,            \* the class of self
    filters,            \* self.filters
    aggregations,       \* self.aggregations (DynamicFiltersWithGroupby)
    aliased,            \* self.filters is the very dict stored in the slot
    session_state,      \* st.session_state: slot name -> dict, present keys only
    pc,                 \* "idle", or "loop" inside display_filters
    location,           \* display_filters' arguments, kept while it runs
    num_columns,
    gap,
    rerun_scope,
    it,                 \* keys of the slot still to iterate, as a list
    filters_changed,
    counter,
    hierarchical_filter_name,
    aggregation_status,
    start,              \* the slot's dict when the running/last pass began
    widgets,            \* widgets rendered by the running/last pass
    reruns,             \* st.rerun calls of the running/last pass (their scopes)
    error,              \* exception raised by the last call
    last_filter_df,     \* the last filter_df call: arguments, state read, result
    shown,              \* what display_df last handed to st.dataframe
    fragment,           \* get_script_run_ctx().current_fragment_id was set when consulted
    interacted,         \* some widget of the running/last pass returned other than its seed
    op                  \* the last operation

vars == <<df, variant, filters, aggregations, aliased, session_state, pc,
          location, num_columns, gap, rerun_scope, it, filters_changed, counter,
          hierarchical_filter_name, aggregation_status, start, widgets,
          reruns, error, last_filter_df, shown, fragment, interacted, op>>

----------------------------------------------------------------------------
(* Bounds of the model *)

\* A multiselect returns at most MaxSel values in one pass.
MaxSel == 2

None == "None"
filters_name == "filters"
aggregation_name == "aggregation"
numerics == <<"amount">>

Row(a, b, c, amount) == [a |-> a, b |-> b, c |-> c, amount |-> amount]

\* A frame handed to the constructor: its rows under the default index 0..n-1
RangeIndex(rows) ==
    [i \in 1..Len(rows) |->
        [index |-> i - 1, a |-> rows[i].a, b |-> rows[i].b, c |-> rows[i].c,
         amount |-> rows[i].amount]]

\* The example of the documentation (a: state X=1, Y=2; b: city A=1, B=2, C=3)
Cities == RangeIndex(<< Row(1, 1, 1, 5), Row(1, 2, 1, 7), Row(2, 3, 1, 11) >>)

\* A frame with a repeated row, filtered on three columns
Repeats == RangeIndex(<< Row(2, 1, 1, 3), Row(1, 2, 1, 4), Row(2, 1, 1, 3) >>)

Datasets == { Cities, Repeats }

\* The filter lists an application of class v declares over frame d
FilterLists(d, v) ==
    IF v = "DynamicFiltersWithGroupby"
    THEN (IF d = Cities THEN { <<"a", "b">>, <<"b">> } ELSE { <<"c", "a">>, <<"a">> })
    ELSE (IF d = Cities THEN { <<"a", "b">>, <<"b">> } ELSE { <<"a", "b", "c">>, <<"c">> })

Variants == {"DynamicFilters", "DynamicFiltersHierarchical", "DynamicFiltersWithGroupby"}

----------------------------------------------------------------------------
(* Python lists and dicts *)

Range(s) == { s[i] : i \in 1..Len(s) }

keys(d) == [i \in 1..Len(d) |-> d[i][1]]

HasKey(d, k) == \E i \in 1..Len(d) : d[i][1] = k

Get(d, k) == d[CHOOSE i \in 1..Len(d) : d[i][1] = k][2]

\* d[k] = v
Put(d, k, v) ==
    IF HasKey(d, k)
    THEN [i \in 1..Len(d) |-> IF d[i][1] = k THEN <<k, v>> ELSE d[i]]
    ELSE Append(d, <<k, v>>)

\* list.remove(x): drops the first occurrence
RECURSIVE remove(_, _)
remove(s, x) ==
    IF s = <<>> THEN <<>>
    ELSE IF Head(s) = x THEN Tail(s)
    ELSE <<Head(s)>> \o remove(Tail(s), x)

\* {name: v for name in names}: a repeated name keeps its first position
RECURSIVE DictOf(_, _)
DictOf(names, v) ==
    IF names = <<>> THEN <<>>
    ELSE Put(DictOf(SubSeq(names, 1, Len(names) - 1), v), names[Len(names)], v)

----------------------------------------------------------------------------
(* DataFrames *)

\* self.df.copy()
copy(d) == [i \in 1..Len(d) |-> i - 1]

\* frame[frame[key].isin(values)]
isin(d, frame, key, values) ==
    SelectSeq(frame, LAMBDA i : d[i + 1][key] \in Range(values))

\* frame[key].unique().tolist(): distinct values in order of first appearance
RECURSIVE unique(_, _, _)
unique(d, frame, key) ==
    IF frame = <<>> THEN <<>>
    ELSE LET rest == unique(d, SubSeq(frame, 1, Len(frame) - 1), key)
             v == d[frame[Len(frame)] + 1][key]
         IN IF v \in Range(rest) THEN rest ELSE Append(rest, v)

sorted(s) == SortSeq(s, LAMBDA x, y : x < y)

columns == <<"a", "b", "c", "amount">>

\* A frame as st.dataframe receives it: index labels, column names, values
Frame(index, cols, rows) == [index |-> index, columns |-> cols, rows |-> rows]

NoFrame == Frame(<<>>, <<>>, <<>>)

\* The rows of the source frame with the labels in frame, all columns
view(d, frame) ==
    Frame(frame, columns,
          [i \in 1..Len(frame) |-> [j \in 1..Len(columns) |-> d[frame[i] + 1][columns[j]]]])

RECURSIVE SetToSeq(_)
SetToSeq(S) ==
    IF S = {} THEN <<>>
    ELSE LET x == CHOOSE y \in S : TRUE IN <<x>> \o SetToSeq(S \ {x})

RECURSIVE sum(_)
sum(s) == IF s = <<>> THEN 0 ELSE Head(s) + sum(Tail(s))

\* Tuples of equal length, compared as python compares them
RECURSIVE lex_less(_, _)
lex_less(x, y) ==
    IF x = <<>> THEN FALSE
    ELSE IF Head(x) # Head(y) THEN Head(x) < Head(y)
    ELSE lex_less(Tail(x), Tail(y))

\* A grouping that keeps the first row of each group instead of the sum
groupby_first(d, frame, by, nums) ==
    LET key(i) == [j \in 1..Len(by) |-> d[i + 1][by[j]]]
        groups == SortSeq(SetToSeq({ key(i) : i \in Range(frame) }), lex_less)
        members(k) == SelectSeq(frame, LAMBDA i : key(i) = k)
    IN Frame([g \in 1..Len(groups) |-> g - 1],
             by \o nums,
             [g \in 1..Len(groups) |->
                 groups[g] \o [n \in 1..Len(nums) |-> d[members(groups[g])[1] + 1][nums[n]]]])

\* frame[by + nums].groupby(by, as_index=False).sum(): one row per group of
\* equal values of the by columns, groups in sorted order, labels 0..m-1
groupby_sum(d, frame, by, nums) ==
    LET key(i) == [j \in 1..Len(by) |-> d[i + 1][by[j]]]
        groups == SortSeq(SetToSeq({ key(i) : i \in Range(frame) }), lex_less)
        members(k) == SelectSeq(frame, LAMBDA i : key(i) = k)
        total(k, col) == sum([m \in 1..Len(members(k)) |-> d[members(k)[m] + 1][col]])
    IN Frame([g \in 1..Len(groups) |-> g - 1],
             by \o nums,
             [g \in 1..Len(groups) |->
                 groups[g] \o [n \in 1..Len(nums) |-> total(groups[g], nums[n])]])

----------------------------------------------------------------------------
(* filter_df of the three classes.  fs is st.session_state[self.filters_name] *)

\* DynamicFilters.filter_df, the loop over .items()
RECURSIVE filter_df_items(_, _, _, _)
filter_df_items(d, filtered_df, items, except_filter) ==
    IF items = <<>> THEN filtered_df
    ELSE LET key == Head(items)[1]
             values == Head(items)[2]
         IN filter_df_items(d,
                IF key # except_filter /\ values # <<>>
                THEN isin(d, filtered_df, key, values)
                ELSE filtered_df,
                Tail(items), except_filter)

\* A filter_df whose every restriction starts again from the source frame
RECURSIVE filter_df_restart_items(_, _, _, _)
filter_df_restart_items(d, filtered_df, items, except_filter) ==
    IF items = <<>> THEN filtered_df
    ELSE LET key == Head(items)[1]
             values == Head(items)[2]
         IN filter_df_restart_items(d,
                IF key # except_filter /\ values # <<>>
                THEN isin(d, copy(d), key, values)
                ELSE filtered_df,
                Tail(items), except_filter)

filter_df_restart(d, fs, except_filter) ==
    filter_df_restart_items(d, copy(d), fs, except_filter)

\* A filter_df that also applies an empty selection
RECURSIVE filter_df_empty_items(_, _, _, _)
filter_df_empty_items(d, filtered_df, items, except_filter) ==
    IF items = <<>> THEN filtered_df
    ELSE LET key == Head(items)[1]
             values == Head(items)[2]
         IN filter_df_empty_items(d,
                IF key # except_filter
                THEN isin(d, filtered_df, key, values)
                ELSE filtered_df,
                Tail(items), except_filter)

filter_df_empty(d, fs, except_filter) ==
    filter_df_empty_items(d, copy(d), fs, except_filter)

filter_df(d, fs, except_filter) ==
    filter_df_items(d, copy(d), fs, except_filter)

\* DynamicFiltersHierarchical.filter_df
RECURSIVE filter_df_h_items(_, _, _, _, _)
filter_df_h_items(d, filtered_df, items, except_filter, except_filter_tab) ==
    IF items = <<>> THEN filtered_df
    ELSE LET key == Head(items)[1]
             values == Head(items)[2]
         IN filter_df_h_items(d,
                IF /\ key # except_filter
                   /\ key \notin Range(except_filter_tab)
                   /\ values # <<>>
                THEN isin(d, filtered_df, key, values)
                ELSE filtered_df,
                Tail(items), except_filter, except_filter_tab)

\* A hierarchical filter_df that ignores except_filter_tab
filter_df_h_no_tab(d, fs, except_filter, except_filter_tab) ==
    filter_df(d, fs, except_filter)

filter_df_h(d, fs, except_filter, except_filter_tab) ==
    filter_df_h_items(d, copy(d), fs, except_filter, except_filter_tab)

\* DynamicFiltersWithGroupby.filter_df
RECURSIVE filter_df_g_items(_, _, _, _)
filter_df_g_items(d, filtered_df, items, except_filter) ==
    IF items = <<>> THEN filtered_df
    ELSE LET key == Head(items)[1]
             values == Head(items)[2]
         IN filter_df_g_items(d,
                IF key # except_filter /\ values # <<>>
                THEN isin(d, filtered_df, key, values)
                ELSE filtered_df,
                Tail(items), except_filter)

filter_df_g(d, fs, except_filter) ==
    filter_df_g_items(d, copy(d), fs, except_filter)

\* Which frame object a name is bound to: self.df itself ("self.df") or a
\* frame made since ("new").  A copy that returns the frame it was given:
copy_alias(object) == object

\* self.df.copy() makes a new frame
copy_object(object) == "new"

\* frame[frame[key].isin(values)] makes a new frame
isin_object(object) == "new"

\* The object filtered_df is bound to through the loop of filter_df
RECURSIVE filter_df_object_items(_, _, _, _)
filter_df_object_items(object, items, except_filter, except_filter_tab) ==
    IF items = <<>> THEN object
    ELSE LET key == Head(items)[1]
             values == Head(items)[2]
         IN filter_df_object_items(
                IF /\ key # except_filter
                   /\ key \notin Range(except_filter_tab)
                   /\ values # <<>>
                THEN isin_object(object)
                ELSE object,
                Tail(items), except_filter, except_filter_tab)

\* The object filter_df returns (the three classes agree: a copy of self.df,
\* then one boolean indexing per restricting filter)
filter_df_object(fs, except_filter, except_filter_tab) ==
    filter_df_object_items(copy_object("self.df"), fs, except_filter, except_filter_tab)

\* self.filter_df(...) as the class of self dispatches it
self_filter_df(v, d, fs, except_filter, except_filter_tab) ==
    CASE v = "DynamicFilters" -> filter_df(d, fs, except_filter)
      [] v = "DynamicFiltersHierarchical" ->
            filter_df_h(d, fs, except_filter, except_filter_tab)
      [] OTHER -> filter_df_g(d, fs, except_filter)

\* What a filter_df call read and returned
Call(v, d, fs, except_filter, except_filter_tab) ==
    [except_filter |-> except_filter,
     except_filter_tab |-> except_filter_tab,
     state |-> fs,
     object |-> filter_df_object(fs, except_filter, except_filter_tab),
     result |-> self_filter_df(v, d, fs, except_filter, except_filter_tab)]

NoCall == [except_filter |-> None, except_filter_tab |-> <<>>,
           state |-> <<>>, object |-> None, result |-> <<>>]

----------------------------------------------------------------------------
(* st.session_state *)

present(ss, name) == name \in DOMAIN ss

\* del st.session_state[name]
del(ss, name) == [k \in DOMAIN ss \ {name} |-> ss[k]]

\* A check_state that writes the slot whether or not it exists
check_state_overwrite(ss, f) == (filters_name :> f) @@ ss

\* DynamicFilters.check_state (inherited by DynamicFiltersHierarchical)
check_state(ss, f) ==
    IF ~present(ss, filters_name) THEN (filters_name :> f) @@ ss ELSE ss

\* DynamicFiltersWithGroupby.check_state
check_state_g(ss, f, ag) ==
    LET ss1 == IF ~present(ss, filters_name) THEN (filters_name :> f) @@ ss ELSE ss
    IN IF ~present(ss1, aggregation_name)
       THEN (aggregation_name :> ag) @@ ss1
       ELSE ss1

self_check_state(v, ss, f, ag) ==
    IF v = "DynamicFiltersWithGroupby" THEN check_state_g(ss, f, ag)
    ELSE check_state(ss, f)

\* reset_filters (the same code in DynamicFilters and DynamicFiltersWithGroupby)
reset_filters(ss) ==
    IF present(ss, filters_name) THEN del(ss, filters_name) ELSE ss

----------------------------------------------------------------------------
(* display_filters: argument validation *)

Int_(n) == [isint |-> TRUE, v |-> n]
Float_(n) == [isint |-> FALSE, v |-> n]

\* The exception the checks of display_filters raise, "none" when they pass.
validate(loc, n, g, scope, ss) ==
    IF loc \notin {"sidebar", "columns", None} THEN "StreamlitAPIException"
    ELSE IF ~n.isint THEN "StreamlitAPIException"
    ELSE IF n.v > 8 THEN "StreamlitAPIException"
    ELSE IF ~present(ss, filters_name) THEN "KeyError"
    ELSE IF n.v > Len(ss[filters_name]) + 1 THEN "StreamlitAPIException"
    ELSE IF loc = "columns" /\ n.v = 0 THEN "StreamlitAPIException"
    ELSE IF g \notin {"small", "medium", "large"} THEN "StreamlitAPIException"
    ELSE IF scope \notin {"app", "fragment", "auto"} THEN "StreamlitAPIException"
    ELSE "none"

\* Arguments display_filters is called with: the defaults, the layouts, and
\* one call per check that can fail.
Arg(loc, n, g, scope) ==
    [location |-> loc, num_columns |-> n, gap |-> g, rerun_scope |-> scope]

GoodArgs ==
    { Arg(None, Int_(0), "small", "auto"),
      Arg("sidebar", Int_(0), "medium", "app"),
      Arg("columns", Int_(2), "large", "fragment") }

NegativeArgs ==
    { Arg("columns", Int_(-1), "small", "auto") }

BadArgs ==
    { Arg("top", Int_(0), "small", "auto"),
      Arg("columns", Float_(2), "small", "auto"),
      Arg("sidebar", Int_(9), "small", "auto"),
      Arg("columns", Int_(4), "small", "auto"),
      Arg("columns", Int_(0), "small", "auto"),
      Arg(None, Int_(0), "huge", "auto"),
      Arg(None, Int_(0), "small", "loop"),
      Arg("top", Int_(9), "huge", "loop") }

Args == GoodArgs \cup NegativeArgs \cup BadArgs

NoArgs == Arg("sidebar", Int_(0), "small", "app")

----------------------------------------------------------------------------
(* Widgets *)

\* The lists without repetition over the values of s, of length n at most
RECURSIVE Picks(_, _)
Picks(S, n) ==
    IF n = 0 THEN { <<>> }
    ELSE LET shorter == Picks(S, n - 1)
         IN shorter \cup { Append(p, x) : p \in { q \in shorter : Len(q) = n - 1 },
                                           x \in S }

NoRepeat(s) == \A i, j \in 1..Len(s) : s[i] = s[j] => i = j

\* What st.multiselect(label, options, default=...) may return: the seed when
\* the user did nothing, otherwise some options in the order they were picked.
multiselect(options, default) ==
    {default} \cup { p \in Picks(Range(options), MaxSel) : NoRepeat(p) }

\* A pruning that keeps every stored value
valid_selections_keep(stored, options) == stored

\* A pruning that returns the valid values in reverse order
valid_selections_reversed(stored, options) ==
    LET valid == SelectSeq(stored, LAMBDA v : v \in Range(options))
    IN [i \in 1..Len(valid) |-> valid[Len(valid) + 1 - i]]

\* valid_selections: the stored values that are still options, in stored order
valid_selections(stored, options) ==
    SelectSeq(stored, LAMBDA v : v \in Range(options))

\* A counter that runs past the last column
next_counter_on(c, max_value) == c + 1

\* The column counter after one widget
next_counter(c, max_value) ==
    LET c1 == (c + 1) % (max_value + 1)
    IN IF c1 = 0 THEN 1 ELSE c1

InColumns == location = "columns" /\ num_columns.v > 0

----------------------------------------------------------------------------
(* The initial state: one orchestrator constructed over an empty store *)

Init ==
    /\ df \in Datasets
    /\ variant \in Variants
    /\ \E fl \in FilterLists(df, variant) :
         /\ filters = DictOf(fl, <<>>)
         /\ aggregations = IF variant = "DynamicFiltersWithGroupby"
                           THEN DictOf(fl, FALSE) ELSE <<>>
    /\ session_state = self_check_state(variant, <<>>, filters, aggregations)
    /\ aliased = TRUE
    /\ pc = "idle"
    /\ location = NoArgs.location
    /\ num_columns = NoArgs.num_columns
    /\ gap = NoArgs.gap
    /\ rerun_scope = NoArgs.rerun_scope
    /\ it = <<>>
    /\ filters_changed = FALSE
    /\ counter = 0
    /\ hierarchical_filter_name = <<>>
    /\ aggregation_status = <<>>
    /\ start = <<>>
    /\ widgets = <<>>
    /\ reruns = <<>>
    /\ error = "none"
    /\ last_filter_df = NoCall
    /\ shown = NoFrame
    /\ fragment = FALSE
    /\ interacted = FALSE
    /\ op = "__init__"

\* The locals and the record of a pass, as they are outside any pass
NoPass ==
    /\ location' = NoArgs.location
    /\ num_columns' = NoArgs.num_columns
    /\ gap' = NoArgs.gap
    /\ rerun_scope' = NoArgs.rerun_scope
    /\ it' = <<>>
    /\ filters_changed' = FALSE
    /\ counter' = 0
    /\ hierarchical_filter_name' = <<>>
    /\ aggregation_status' = <<>>
    /\ start' = <<>>
    /\ widgets' = <<>>
    /\ reruns' = <<>>
    /\ fragment' = FALSE
    /\ interacted' = FALSE

----------------------------------------------------------------------------
(* Construction, check_state, reset_filters *)

\* __init__(df, filters): a new orchestrator of the same class over the same
\* frame and store; self.filters is a fresh dict, stored in the slot (and so
\* shared with it) only when the slot is absent.
Construct(fl) ==
    /\ pc = "idle"
    /\ filters' = DictOf(fl, <<>>)
    /\ aggregations' = IF variant = "DynamicFiltersWithGroupby"
                       THEN DictOf(fl, FALSE) ELSE <<>>
    /\ session_state' = self_check_state(variant, session_state, filters', aggregations')
    /\ aliased' = ~present(session_state, filters_name)
    /\ error' = "none"
    /\ op' = "__init__"
    /\ NoPass
    /\ last_filter_df' = NoCall
    /\ shown' = NoFrame
    /\ UNCHANGED <<df, variant, pc>>

\* check_state() called again on the same orchestrator
CheckState ==
    /\ pc = "idle"
    /\ session_state' = self_check_state(variant, session_state, filters, aggregations)
    /\ aliased' = (aliased \/ ~present(session_state, filters_name))
    /\ error' = "none"
    /\ op' = "check_state"
    /\ NoPass
    /\ last_filter_df' = NoCall
    /\ shown' = NoFrame
    /\ UNCHANGED <<df, variant, filters, aggregations, pc>>

ResetFilters ==
    /\ pc = "idle"
    /\ session_state' = reset_filters(session_state)
    /\ aliased' = FALSE
    /\ error' = "none"
    /\ op' = "reset_filters"
    /\ NoPass
    /\ last_filter_df' = NoCall
    /\ shown' = NoFrame
    /\ UNCHANGED <<df, variant, filters, aggregations, pc>>

----------------------------------------------------------------------------
(* display_filters: entry *)

\* Entry of a display_filters call with arguments a raising e ("none": the
\* loop is entered over the keys of the slot).
Enter(a, e) ==
    /\ pc = "idle"
    /\ error' = e
    /\ location' = a.location
    /\ num_columns' = a.num_columns
    /\ gap' = a.gap
    /\ rerun_scope' = a.rerun_scope
    /\ filters_changed' = FALSE
    /\ widgets' = <<>>
    /\ reruns' = <<>>
    /\ aggregation_status' = <<>>
    /\ last_filter_df' = NoCall
    /\ shown' = NoFrame
    /\ fragment' = FALSE
    /\ interacted' = FALSE
    /\ op' = "display_filters"
    /\ IF e = "none"
       THEN /\ pc' = "loop"
            /\ it' = keys(session_state[filters_name])
            /\ start' = session_state[filters_name]
            /\ counter' = IF a.location = "columns" /\ a.num_columns.v > 0 THEN 1 ELSE 0
            /\ hierarchical_filter_name' =
                  IF variant = "DynamicFiltersHierarchical"
                  THEN keys(session_state[filters_name]) ELSE <<>>
       ELSE /\ pc' = "idle"
            /\ it' = <<>>
            /\ start' = <<>>
            /\ counter' = 0
            /\ hierarchical_filter_name' = <<>>
    /\ UNCHANGED <<df, variant, filters, aggregations, aliased, session_state>>

\* DynamicFiltersHierarchical.display_filters repeats the checks
validate_h(loc, n, g, scope, ss) ==
    IF loc \notin {"sidebar", "columns", None} THEN "StreamlitAPIException"
    ELSE IF ~n.isint THEN "StreamlitAPIException"
    ELSE IF n.v > 8 THEN "StreamlitAPIException"
    ELSE IF ~present(ss, filters_name) THEN "KeyError"
    ELSE IF n.v > Len(ss[filters_name]) + 1 THEN "StreamlitAPIException"
    ELSE IF loc = "columns" /\ n.v = 0 THEN "StreamlitAPIException"
    ELSE IF g \notin {"small", "medium", "large"} THEN "StreamlitAPIException"
    ELSE IF scope \notin {"app", "fragment", "auto"} THEN "StreamlitAPIException"
    ELSE "none"

\* DynamicFilters.display_filters(location, num_columns, gap, rerun_scope)
DisplayFilters(a) ==
    /\ variant = "DynamicFilters"
    /\ Enter(a, validate(a.location, a.num_columns, a.gap, a.rerun_scope, session_state))

\* DynamicFiltersHierarchical.display_filters(...)
DisplayFiltersH(a) ==
    /\ variant = "DynamicFiltersHierarchical"
    /\ Enter(a, validate_h(a.location, a.num_columns, a.gap, a.rerun_scope, session_state))

\* DynamicFiltersWithGroupby.display_filters(): no arguments, always the
\* sidebar; reading the keys of an absent slot raises KeyError
DisplayFiltersG ==
    /\ variant = "DynamicFiltersWithGroupby"
    /\ Enter(NoArgs, IF present(session_state, filters_name) THEN "none" ELSE "KeyError")

----------------------------------------------------------------------------
(* display_filters: one iteration of the loop over the slot's keys *)

\* A rendered multiselect
Widget(name, options, default, where, col, selected) ==
    [name |-> name, options |-> options, default |-> default,
     where |-> where, col |-> col, selected |-> selected]

\* The slot's dict is replaced by fs; self.filters follows when it is that dict
Store(fs) ==
    /\ session_state' = [session_state EXCEPT ![filters_name] = fs]
    /\ filters' = IF aliased THEN fs ELSE filters

\* Options taken from the whole source, whatever the other filters select
options_all(d, call, filter_name) == unique(d, copy(d), filter_name)

\* options = filtered_df[filter_name].unique().tolist()
options_of(d, call, filter_name) == unique(d, call.result, filter_name)

\* A pruning that empties a selection holding a value no longer offered
pruned_empty(fs, filter_name, options) ==
    IF Range(Get(fs, filter_name)) \subseteq Range(options)
    THEN fs ELSE Put(fs, filter_name, <<>>)

\* The slot's dict after the stored selection of filter_name is pruned to options
pruned(fs, filter_name, options) ==
    LET stored == Get(fs, filter_name)
        valid == valid_selections(stored, options)
    IN IF valid # stored THEN Put(fs, filter_name, valid) ELSE fs

\* A capture that never writes what the widget returned
captured_none(fs, filter_name, selected) == fs

\* The slot's dict after the widget of filter_name returned selected
captured(fs, filter_name, selected) ==
    IF selected # Get(fs, filter_name) THEN Put(fs, filter_name, selected) ELSE fs

\* A filters_changed that is set by every iteration
dirty_always(changed, fs0, fs1, fs2) == TRUE

\* A filters_changed that forgets the earlier iterations
dirty_last(changed, fs0, fs1, fs2) == fs1 # fs0 \/ fs2 # fs1

\* filters_changed after one iteration took the slot's dict from fs0 (before
\* pruning) over fs1 (pruned) to fs2 (captured)
dirty(changed, fs0, fs1, fs2) == changed \/ fs1 # fs0 \/ fs2 # fs1

\* From the options to the capture, for the filter at the head of it: call is
\* the filter_df call made for it, touched whether another widget of the
\* iteration returned other than its seed.
Reconcile(call, touched) ==
    LET filter_name == Head(it)
        fs0 == session_state[filters_name]
        options == options_of(df, call, filter_name)
        fs1 == pruned(fs0, filter_name, options)
        default == Get(fs1, filter_name)
    IN \E selected \in multiselect(sorted(options), default) :
         LET fs2 == captured(fs1, filter_name, selected)
         IN /\ Store(fs2)
            /\ filters_changed' = dirty(filters_changed, fs0, fs1, fs2)
            /\ widgets' = Append(widgets,
                  Widget(filter_name, sorted(options), default,
                         IF location = "sidebar" THEN "sidebar"
                         ELSE IF InColumns THEN "columns" ELSE "main",
                         IF location # "sidebar" /\ InColumns THEN counter - 1 ELSE -1,
                         selected))
            /\ counter' = IF location # "sidebar" /\ InColumns
                          THEN next_counter(counter, num_columns.v) ELSE counter
            /\ interacted' = (interacted \/ touched \/ selected # default)
            /\ last_filter_df' = call
            /\ it' = Tail(it)

\* DynamicFilters.display_filters, the loop body
Iterate ==
    /\ pc = "loop" /\ it # <<>>
    /\ variant = "DynamicFilters"
    /\ Reconcile(Call(variant, df, session_state[filters_name], Head(it), <<>>), FALSE)
    /\ UNCHANGED <<df, variant, aggregations, aliased, pc, location, num_columns,
                   gap, rerun_scope, hierarchical_filter_name, aggregation_status,
                   start, reruns, error, shown, fragment, op>>

\* DynamicFiltersHierarchical.display_filters, the loop body
IterateH ==
    /\ pc = "loop" /\ it # <<>>
    /\ variant = "DynamicFiltersHierarchical"
    /\ Reconcile(Call(variant, df, session_state[filters_name], None,
                      hierarchical_filter_name), FALSE)
    /\ hierarchical_filter_name' = remove(hierarchical_filter_name, Head(it))
    /\ UNCHANGED <<df, variant, aggregations, aliased, pc, location, num_columns,
                   gap, rerun_scope, aggregation_status,
                   start, reruns, error, shown, fragment, op>>

\* The flag persisted for a filter, FALSE when there is none
Flag(ss, name) ==
    IF present(ss, aggregation_name) /\ HasKey(ss[aggregation_name], name)
    THEN Get(ss[aggregation_name], name) ELSE FALSE

\* DynamicFiltersWithGroupby.display_filters, the loop body: a checkbox, then
\* the multiselect
IterateG ==
    /\ pc = "loop" /\ it # <<>>
    /\ variant = "DynamicFiltersWithGroupby"
    /\ \E selected_aggregation \in BOOLEAN :
         /\ aggregation_status' = Put(aggregation_status, Head(it), selected_aggregation)
         /\ Reconcile(Call(variant, df, session_state[filters_name], Head(it), <<>>),
                      selected_aggregation # Flag(session_state, Head(it)))
    /\ UNCHANGED <<df, variant, aggregations, aliased, pc, location, num_columns,
                   gap, rerun_scope, hierarchical_filter_name,
                   start, reruns, error, shown, fragment, op>>

----------------------------------------------------------------------------
(* display_filters: after the loop *)

\* A rerun that always restarts the whole application
rerun_app(changed, scope, in_fragment) == IF changed THEN <<"app">> ELSE <<>>

\* if filters_changed: st.rerun(scope=...), as the list of scopes requested
rerun(changed, scope, in_fragment) ==
    IF changed
    THEN << IF scope = "auto"
            THEN (IF in_fragment THEN "fragment" ELSE "app")
            ELSE scope >>
    ELSE <<>>

Finish ==
    /\ pc = "loop" /\ it = <<>>
    /\ variant = "DynamicFilters"
    /\ \E in_fragment \in BOOLEAN :
         /\ fragment' = (filters_changed /\ rerun_scope = "auto" /\ in_fragment)
         /\ reruns' = reruns \o rerun(filters_changed, rerun_scope, in_fragment)
    /\ pc' = "idle"
    /\ UNCHANGED <<df, variant, filters, aggregations, aliased, session_state,
                   location, num_columns, gap, rerun_scope, it, filters_changed,
                   counter, hierarchical_filter_name, aggregation_status, start,
                   widgets, error, last_filter_df, shown, interacted, op>>

rerun_h(changed, scope, in_fragment) ==
    IF changed
    THEN << IF scope = "auto"
            THEN (IF in_fragment THEN "fragment" ELSE "app")
            ELSE scope >>
    ELSE <<>>

FinishH ==
    /\ pc = "loop" /\ it = <<>>
    /\ variant = "DynamicFiltersHierarchical"
    /\ \E in_fragment \in BOOLEAN :
         /\ fragment' = (filters_changed /\ rerun_scope = "auto" /\ in_fragment)
         /\ reruns' = reruns \o rerun_h(filters_changed, rerun_scope, in_fragment)
    /\ pc' = "idle"
    /\ UNCHANGED <<df, variant, filters, aggregations, aliased, session_state,
                   location, num_columns, gap, rerun_scope, it, filters_changed,
                   counter, hierarchical_filter_name, aggregation_status, start,
                   widgets, error, last_filter_df, shown, interacted, op>>

\* A comparison of the keys alone
dict_eq_keys(d1, d2) == Range(keys(d1)) = Range(keys(d2))

\* python's dict comparison: the same pairs, in any order
dict_eq(d1, d2) == Range(d1) = Range(d2)

\* if filters_changed: st.rerun()  (the default scope is "app")
rerun_g(changed) == IF changed THEN <<"app">> ELSE <<>>

FinishG ==
    /\ pc = "loop" /\ it = <<>>
    /\ variant = "DynamicFiltersWithGroupby"
    /\ LET differs == ~dict_eq(aggregation_status, session_state[aggregation_name])
       IN /\ session_state' = IF differs
                              THEN [session_state EXCEPT ![aggregation_name] = aggregation_status]
                              ELSE session_state
          /\ filters_changed' = (filters_changed \/ differs)
          /\ reruns' = reruns \o rerun_g(filters_changed')
    /\ pc' = "idle"
    /\ UNCHANGED <<df, variant, filters, aggregations, aliased,
                   location, num_columns, gap, rerun_scope, it,
                   counter, hierarchical_filter_name, aggregation_status, start,
                   widgets, error, last_filter_df, shown, fragment, interacted, op>>

----------------------------------------------------------------------------
(* display_df *)

\* The columns flagged for aggregation, in the order of the aggregation dict
aggregation_columns(ag) ==
    LET flagged == SelectSeq(ag, LAMBDA kv : kv[2] = TRUE)
    IN [i \in 1..Len(flagged) |-> flagged[i][1]]

\* DynamicFiltersWithGroupby.display_df, from the filtered frame on
display_df_g(d, frame, ag) ==
    LET by == aggregation_columns(ag)
        out == IF by # <<>> /\ Len(frame) > 0
               THEN groupby_sum(d, frame, by, numerics)
               ELSE view(d, frame)
    IN Frame([i \in 1..Len(out.index) |-> out.index[i] + 1], out.columns, out.rows)

\* self.df after DynamicFiltersWithGroupby.display_df ran on the frame object
\* filter_df returned: the grouping binds the local df to a new frame, and
\* df.index += 1 then sets the index of the frame df is bound to.
display_df_g_source(d, frame, object, ag) ==
    LET by == aggregation_columns(ag)
        bound == IF by # <<>> /\ Len(frame) > 0 THEN "new" ELSE object
    IN IF bound = "self.df"
       THEN [i \in 1..Len(d) |-> [d[i] EXCEPT !.index = @ + 1]]
       ELSE d

\* display_df of the class of self; reading an absent slot raises KeyError
DisplayDf ==
    /\ pc = "idle"
    /\ NoPass
    /\ op' = "display_df"
    /\ IF present(session_state, filters_name)
       THEN LET call == Call(variant, df, session_state[filters_name], None, <<>>)
            IN /\ last_filter_df' = call
               /\ error' = "none"
               /\ shown' = IF variant = "DynamicFiltersWithGroupby"
                           THEN display_df_g(df, call.result, session_state[aggregation_name])
                           ELSE view(df, call.result)
               /\ df' = IF variant = "DynamicFiltersWithGroupby"
                        THEN display_df_g_source(df, call.result, call.object,
                                                 session_state[aggregation_name])
                        ELSE df
       ELSE /\ last_filter_df' = NoCall
            /\ error' = "KeyError"
            /\ shown' = NoFrame
            /\ df' = df
    /\ UNCHANGED <<variant, filters, aggregations, aliased, session_state, pc>>

----------------------------------------------------------------------------

Next ==
    \/ \E fl \in FilterLists(df, variant) : Construct(fl)
    \/ CheckState
    \/ ResetFilters
    \/ \E a \in Args : DisplayFilters(a)
    \/ \E a \in Args : DisplayFiltersH(a)
    \/ DisplayFiltersG
    \/ Iterate
    \/ IterateH
    \/ IterateG
    \/ Finish
    \/ FinishH
    \/ FinishG
    \/ DisplayDf

Spec == Init /\ [][Next]_vars

----------------------------------------------------------------------------

(* Properties *)

Base == "DynamicFilters"
Hier == "DynamicFiltersHierarchical"
Groupby == "DynamicFiltersWithGroupby"

\* The persisted filter state
FS == session_state[filters_name]

\* The last call was a display_filters pass whose loop has finished
LoopDone == op = "display_filters" /\ error = "none" /\ it = <<>>

\* ... and which has returned
PassEnded == LoopDone /\ pc = "idle"

Position(ks, name) == CHOOSE i \in 1..Len(ks) : ks[i] = name

\* Row r passes every non-empty selection of fs among the filters ks
Passes(fs, ks, r) ==
    \A k \in ks : Get(fs, k) # <<>> => r[k] \in Range(Get(fs, k))

\* The filters that restrict the options of filter name: those before it in
\* the hierarchical variant, all the others in the two other variants
Restricting(fs, name) ==
    IF variant = Hier
    THEN { keys(fs)[j] : j \in 1..(Position(keys(fs), name) - 1) }
    ELSE Range(keys(fs)) \ {name}

\* The option set of filter name under filter state fs
OptionSet(fs, name) ==
    { df[i][name] : i \in { j \in 1..Len(df) : Passes(fs, Restricting(fs, name), df[j]) } }

Stale(fs) == { k \in Range(keys(fs)) : ~(Range(Get(fs, k)) \subseteq OptionSet(fs, k)) }

\* C1 as stated: once the loop of a display_filters pass has finished, every
\* value of every filter's persisted selection is in that filter's option set
\* recomputed from the filter state at the end of the pass.
C1_NoStaleAtLoopEnd == LoopDone => Stale(FS) = {}

\* C1 amended: once the loop of a pass has finished, every value of every
\* filter's persisted selection is in the option set the pass computed and
\* offered for that filter; this is the option set recomputed from the
\* end-of-pass state in the hierarchical variant, and in every variant when
\* the pass left every selection as it found it.
C1_SelectionWithinOffered ==
    LoopDone =>
      /\ Len(widgets) = Len(FS)
      /\ \A i \in 1..Len(widgets) :
           /\ widgets[i].name = keys(FS)[i]
           /\ Range(Get(FS, widgets[i].name)) \subseteq Range(widgets[i].options)
      /\ (variant = Hier \/ FS = start) => Stale(FS) = {}

\* A pass whose loop has finished pruned a value and kept another
C1_Witness ==
    /\ LoopDone
    /\ \E i \in 1..Len(widgets) :
         /\ widgets[i].default # Get(start, widgets[i].name)
         /\ widgets[i].default # <<>>
         /\ Get(FS, widgets[i].name) = widgets[i].default

\* The filter_df call the loop of the class v makes for filter name
loop_call(v, d, fs, name, hfn) ==
    IF v = Hier THEN Call(v, d, fs, None, hfn) ELSE Call(v, d, fs, name, <<>>)

\* A whole loop in which every multiselect returns the default it was seeded
\* with: the slot's dict and filters_changed after it
RECURSIVE quiet_loop(_, _, _, _, _, _)
quiet_loop(v, d, fs0, changed, todo, hfn) ==
    IF todo = <<>> THEN [fs |-> fs0, filters_changed |-> changed]
    ELSE LET name == Head(todo)
             options == options_of(d, loop_call(v, d, fs0, name, hfn), name)
             fs1 == pruned(fs0, name, options)
             fs2 == captured(fs1, name, Get(fs1, name))
         IN quiet_loop(v, d, fs2, dirty(changed, fs0, fs1, fs2), Tail(todo),
                       remove(hfn, name))

QuietPass(fs) == quiet_loop(variant, df, fs, FALSE, keys(fs), keys(fs))

Unchanged(fs) == [fs |-> fs, filters_changed |-> FALSE]

\* C2 as stated: after any display_filters pass of the independent or the
\* hierarchical variant, a second pass in which every widget returns its
\* default changes no selection and requests no rerun.
C2_SecondPassIdle ==
    (PassEnded /\ variant \in {Base, Hier}) => QuietPass(FS) = Unchanged(FS)

\* C2 amended: a second pass without user interaction changes no selection
\* and requests no rerun after any first pass of the hierarchical variant,
\* and after a first pass of the independent variant in which no widget
\* returned other than its default (in particular one that requested no rerun).
C2_SecondQuietPassIdle ==
    (PassEnded /\ (variant = Hier \/ (variant = Base /\ ~interacted)))
        => QuietPass(FS) = Unchanged(FS)

\* A first pass of the independent variant in which no widget was touched and
\* a stale value was pruned, a value being kept
C2_Witness ==
    /\ PassEnded /\ variant = Base
    /\ ~interacted /\ filters_changed /\ FS # start
    /\ \E k \in Range(keys(FS)) : Get(FS, k) # <<>>

\* A first pass of the hierarchical variant in which the user changed a filter
C2_WitnessHier ==
    /\ PassEnded /\ variant = Hier /\ interacted
    /\ \E k \in Range(keys(FS)) : Len(Get(FS, k)) = 2

\* The option set of the i-th filter as its predecessors' selections alone give it
PrefixOptions(fs, i) ==
    { df[r][keys(fs)[i]] : r \in { j \in 1..Len(df) :
        \A m \in 1..(i - 1) :
            fs[m][2] # <<>> => df[j][keys(fs)[m]] \in Range(fs[m][2]) } }

\* C3: in the hierarchical variant the options offered for the i-th filter
\* are the distinct values of its column in the rows passing the selections of
\* the filters before it, whatever the selections of the i-th and later filters;
\* the first filter is offered every distinct value of its column.
C3_HierarchyRespect ==
    (op = "display_filters" /\ error = "none" /\ variant = Hier) =>
        /\ \A i \in 1..Len(widgets) :
             Range(widgets[i].options) = PrefixOptions(FS, i)
        /\ Len(widgets) >= 1 =>
             Range(widgets[1].options) =
                { df[j][widgets[1].name] : j \in 1..Len(df) }

\* The documentation's example: with city C selected and no state, state is
\* offered X and Y; selecting state X narrows city to A and B
C3_Witness ==
    /\ df = Cities /\ variant = Hier /\ PassEnded
    /\ start = << <<"a", <<>> >>, <<"b", <<3>> >> >>
    /\ widgets[1].options = <<1, 2>>
    /\ Get(FS, "a") = <<1>>
    /\ widgets[2].options = <<1, 2>>

\* The rows a filter_df call must return: the source labels, in order, of the
\* rows that are in the selection of every filter that has one and is not excluded
Expected(call) ==
    SelectSeq([i \in 1..Len(df) |-> i - 1],
              LAMBDA l :
                \A j \in 1..Len(call.state) :
                    LET k == call.state[j][1]
                        sel == call.state[j][2]
                    IN (k # call.except_filter
                        /\ k \notin Range(call.except_filter_tab)
                        /\ sel # <<>>) => df[l + 1][k] \in Range(sel))

\* C4: filter_df returns exactly the rows that are in the selection of every
\* filter that is not excluded and has a non-empty selection.
C4_FilterDfExact ==
    last_filter_df # NoCall => last_filter_df.result = Expected(last_filter_df)

\* A call that kept a row outside the non-empty selection of an excluded
\* filter, and passed over a filter with an empty selection
C4_Witness ==
    /\ last_filter_df # NoCall
    /\ \E j, m \in 1..Len(last_filter_df.state) :
         LET k == last_filter_df.state[j][1]
             sel == last_filter_df.state[j][2]
         IN /\ (k = last_filter_df.except_filter \/ k \in Range(last_filter_df.except_filter_tab))
            /\ sel # <<>>
            /\ \E l \in Range(last_filter_df.result) : df[l + 1][k] \notin Range(sel)
            /\ last_filter_df.state[m][2] = <<>>
    /\ Len(last_filter_df.result) < Len(df)

\* The dict fs with its items in the order p
Reordered(fs, p) == [i \in 1..Len(fs) |-> fs[p[i]]]

\* C5: the rows filter_df returns are the same for every order of the keys of
\* the filter state.
C5_Commutative ==
    last_filter_df # NoCall =>
        \A p \in Permutations(1..Len(last_filter_df.state)) :
            self_filter_df(variant, df, Reordered(last_filter_df.state, p),
                           last_filter_df.except_filter,
                           last_filter_df.except_filter_tab)
              = last_filter_df.result

\* A call in which two filters restricted the rows, neither keeping them all
C5_Witness ==
    /\ last_filter_df # NoCall
    /\ variant = Base
    /\ \E j, m \in 1..Len(last_filter_df.state) :
         /\ j # m
         /\ \A x \in {j, m} :
              /\ last_filter_df.state[x][1] # last_filter_df.except_filter
              /\ last_filter_df.state[x][2] # <<>>
              /\ \E r \in 1..Len(df) :
                   df[r][last_filter_df.state[x][1]] \notin Range(last_filter_df.state[x][2])

Initializers == {"__init__", "check_state"}

\* C6: reset_filters removes the slot and does nothing when it is absent, and
\* the initialization call that follows it recreates the slot with every
\* declared filter mapped to an empty selection.
C6_ResetRestoresEmpty ==
    [][ /\ op' = "reset_filters" =>
            /\ ~present(session_state', filters_name)
            /\ ~present(session_state, filters_name) => session_state' = session_state
        /\ (op = "reset_filters" /\ op' \in Initializers) =>
            /\ present(session_state', filters_name)
            /\ keys(session_state'[filters_name]) = keys(filters')
            /\ \A i \in 1..Len(session_state'[filters_name]) :
                 session_state'[filters_name][i][2] = <<>> ]_vars

\* C7: construction and check_state leave an existing filter-state slot, and
\* an existing aggregation-state slot, as they are, and remove no slot.
C7_InitKeepsSlot ==
    [][ op' \in Initializers =>
          \A name \in DOMAIN session_state :
              /\ present(session_state', name)
              /\ session_state'[name] = session_state[name] ]_vars

\* An orchestrator constructed over slots that hold a selection and a flag
C7_Witness ==
    /\ op = "__init__" /\ ~aliased
    /\ variant = Groupby
    /\ \E i \in 1..Len(FS) : FS[i][2] # <<>>
    /\ \E i \in 1..Len(session_state[aggregation_name]) :
         session_state[aggregation_name][i][2] = TRUE
    /\ \A i \in 1..Len(filters) : filters[i][2] = <<>>

\* The arguments of the last display_filters call violate a documented constraint
InvalidArguments ==
    \/ location \notin {"sidebar", "columns", None}
    \/ ~num_columns.isint
    \/ num_columns.v > 8
    \/ present(session_state, filters_name) /\ num_columns.v > Len(FS) + 1
    \/ location = "columns" /\ num_columns.v = 0
    \/ gap \notin {"small", "medium", "large"}
    \/ rerun_scope \notin {"app", "fragment", "auto"}

\* C8: a display_filters call of the independent or hierarchical variant whose
\* arguments violate a constraint raises the configuration error, renders no
\* widget and requests no rerun.
C8_InvalidArgumentsRaise ==
    (op = "display_filters" /\ variant \in {Base, Hier} /\ InvalidArguments) =>
        /\ error = "StreamlitAPIException"
        /\ pc = "idle" /\ widgets = <<>> /\ reruns = <<>>

\* C9: a display_filters call with a negative integer num_columns fails with
\* the configuration error before any widget is rendered.
C9_NegativeColumnsRaise ==
    (/\ op = "display_filters" /\ variant \in {Base, Hier}
     /\ present(session_state, filters_name)
     /\ num_columns.isint /\ num_columns.v < 0) =>
        /\ error = "StreamlitAPIException"
        /\ pc = "idle" /\ widgets = <<>>

\* Filter i of the pass was changed by pruning or by capture
Touched(i) ==
    \/ widgets[i].default # Get(start, widgets[i].name)
    \/ widgets[i].selected # widgets[i].default

\* C10: a display_filters pass of the independent or hierarchical variant
\* requests at most one rerun, after its last filter has been processed; it
\* requests it exactly when pruning or capture changed some filter of the
\* pass, which is exactly when the filter state differs from the one the pass
\* started from.
C10_SingleRerun ==
    (op = "display_filters" /\ error = "none" /\ variant \in {Base, Hier}) =>
        /\ Len(reruns) <= 1
        /\ reruns # <<>> => (pc = "idle" /\ it = <<>> /\ Len(widgets) = Len(start))
        /\ filters_changed <=> (\E i \in 1..Len(widgets) : Touched(i))
        /\ filters_changed <=> (FS # start)
        /\ PassEnded => (reruns # <<>> <=> filters_changed)

\* A pass that requested its rerun for a change of its first filter alone
C10_Witness ==
    /\ PassEnded /\ variant = Base
    /\ Len(reruns) = 1
    /\ Len(widgets) >= 2
    /\ Touched(1)
    /\ \A i \in 2..Len(widgets) : ~Touched(i)

----------------------------------------------------------------------------

\* The scope a dirty pass of the independent or hierarchical variant asks for
ScopeAsked ==
    IF rerun_scope = "auto" THEN (IF fragment THEN "fragment" ELSE "app")
    ELSE rerun_scope

\* C11: a dirty pass of the independent or hierarchical variant requests its
\* rerun with scope "app" for rerun_scope "app", "fragment" for "fragment",
\* and for "auto" with "fragment" exactly when the execution context is inside
\* a fragment and "app" otherwise; the aggregation variant only ever requests
\* a rerun of the whole application.
C11_RerunScope ==
    (PassEnded /\ filters_changed) =>
        IF variant = Groupby THEN reruns = <<"app">>
        ELSE /\ rerun_scope \in {"app", "fragment", "auto"}
             /\ reruns = <<ScopeAsked>>

\* A dirty pass with rerun_scope "auto" inside a fragment
C11_Witness ==
    /\ PassEnded /\ filters_changed /\ variant = Base
    /\ rerun_scope = "auto" /\ fragment
    /\ reruns = <<"fragment">>

----------------------------------------------------------------------------

\* The rows of the source that pass every non-empty persisted selection
Filtered == Expected([except_filter |-> None, except_filter_tab |-> <<>>, state |-> FS])

\* The filter columns whose persisted aggregation flag is true
FlaggedColumns ==
    SelectSeq(keys(session_state[aggregation_name]),
              LAMBDA k : Get(session_state[aggregation_name], k) = TRUE)

\* The values row label i carries in the columns by
GroupKey(i, by) == [j \in 1..Len(by) |-> df[i + 1][by[j]]]

\* display_df of the aggregation variant has just shown a frame
ShownG == op = "display_df" /\ error = "none" /\ variant = Groupby

\* C12: in the aggregation variant, with some filter flagged and a non-empty
\* filtered dataset, display_df shows one row per distinct combination of
\* values of the flagged columns occurring in the filtered dataset, carrying
\* the flagged columns and the numeric columns only, each numeric column
\* being the sum over the filtered rows of the combination; with no filter
\* flagged, or an empty filtered dataset, it shows the filtered rows
\* ungrouped with all their columns.
C12_Aggregation ==
    ShownG =>
        LET by == FlaggedColumns
            n == Len(by)
        IN IF by # <<>> /\ Filtered # <<>>
           THEN /\ shown.columns = by \o numerics
                /\ Len(shown.rows) = Cardinality({ GroupKey(i, by) : i \in Range(Filtered) })
                /\ \A i \in Range(Filtered) :
                     \E r \in 1..Len(shown.rows) : SubSeq(shown.rows[r], 1, n) = GroupKey(i, by)
                /\ \A r \in 1..Len(shown.rows) :
                     LET members == SelectSeq(Filtered,
                             LAMBDA i : GroupKey(i, by) = SubSeq(shown.rows[r], 1, n))
                     IN /\ members # <<>>
                        /\ \A c \in 1..Len(numerics) :
                             shown.rows[r][n + c] =
                                sum([m \in 1..Len(members) |-> df[members[m] + 1][numerics[c]]])
           ELSE /\ shown.columns = columns
                /\ shown.rows = [i \in 1..Len(Filtered) |->
                                    [j \in 1..Len(columns) |-> df[Filtered[i] + 1][columns[j]]]]

\* A grouped display that merged several filtered rows into one, under a
\* non-empty selection
C12_Witness ==
    /\ ShownG
    /\ FlaggedColumns # <<>>
    /\ \E k \in Range(keys(FS)) : Get(FS, k) # <<>>
    /\ Filtered # <<>>
    /\ Len(shown.rows) < Len(Filtered)

----------------------------------------------------------------------------

\* C13: in the aggregation variant with no flag set and a non-empty filtered
\* view of m rows, the rows display_df shows carry the indices 1..m, the first
\* displayed row having index 1, also when the filter removed the first rows
\* of the source.
C13_IndexFromOne ==
    (ShownG /\ FlaggedColumns = <<>> /\ Filtered # <<>>) =>
        shown.index = [i \in 1..Len(Filtered) |-> i]

\* What display_df does to the row labels of an ungrouped view: each shown
\* index is the label the row has in the source, plus one
IndexShifted ==
    (ShownG /\ (FlaggedColumns = <<>> \/ Filtered = <<>>)) =>
        shown.index = [i \in 1..Len(Filtered) |-> Filtered[i] + 1]

----------------------------------------------------------------------------

\* The filter columns declared to the orchestrator now operating on the slot
Declared == Range(keys(filters))

\* A step of a display_filters call
PassStep == op' = "display_filters"

\* display_filters neither adds nor removes a key of the slot, nor reorders them
KeysKeptByPass ==
    [][ (PassStep /\ present(session_state, filters_name)) =>
            /\ present(session_state', filters_name)
            /\ keys(session_state'[filters_name]) = keys(session_state[filters_name]) ]_vars

\* C14: whenever the filter-state slot exists, after any sequence of
\* constructions (of orchestrators sharing the slot name, with different
\* filter lists), passes and resets, its key set is exactly the set of
\* declared filter columns of the orchestrator operating on it; and
\* display_filters never adds or removes a key.
C14_KeySet ==
    /\ [](present(session_state, filters_name) => Range(keys(FS)) = Declared)
    /\ KeysKeptByPass

\* The slot's keys are the declared columns for as long as the slot holds
\* the dict of the orchestrator itself
KeySetWhenOwn == (aliased /\ present(session_state, filters_name)) => keys(FS) = keys(filters)

----------------------------------------------------------------------------

\* The index labels of the source frame
SourceIndex == [i \in 1..Len(df) |-> df[i].index]

\* C15: no operation changes the source dataset: filter_df, display_filters
\* and display_df of every variant (the index renumbering and the grouping of
\* the aggregation variant included) and reset_filters leave its rows, its
\* values and its row indices as they were handed to the constructor, every
\* filtering pass working on a copy.
C15_SourceImmutable ==
    [][ /\ df' = df
        /\ SourceIndex' = [i \in 1..Len(df) |-> i - 1]
        /\ last_filter_df' # NoCall => last_filter_df'.object = "new" ]_vars

\* The aggregation variant has shown the whole source, ungrouped, under the
\* indices 1..n, and the source still carries 0..n-1
C15_Witness ==
    /\ ShownG
    /\ FlaggedColumns = <<>>
    /\ Len(Filtered) = Len(df)
    /\ shown.index = [i \in 1..Len(df) |-> i]
    /\ SourceIndex = [i \in 1..Len(df) |-> i - 1]

----------------------------------------------------------------------------

\* A display_filters pass is running or has run
InPass == op = "display_filters" /\ error = "none"

\* The filter state the i-th filter of the pass found: the filters before it
\* as their widgets left them, the others as the pass found them
StateAt(i) ==
    [j \in 1..Len(start) |->
        IF j < i THEN <<start[j][1], widgets[j].selected>> ELSE start[j]]

\* The selection the i-th filter of the pass had before it was pruned
Previous(i) == start[i][2]

\* C16: for each filter of a pass, the persisted selection is replaced,
\* before the widget is rendered, by the previous selection restricted to
\* the option set computed for the filter in this pass, in the previous
\* relative order; pruning marks the pass dirty exactly when the restriction
\* differs from the previous selection; the widget's default is the pruned
\* selection, hence a subset of the options offered, in every variant.
C16_PruningRule ==
    InPass =>
        /\ Len(widgets) <= Len(start)
        /\ \A i \in 1..Len(widgets) :
             LET w == widgets[i]
             IN /\ w.name = start[i][1]
                /\ Range(w.options) = OptionSet(StateAt(i), w.name)
                /\ w.default = SelectSeq(Previous(i), LAMBDA v : v \in Range(w.options))
                /\ Range(w.default) \subseteq Range(w.options)
                /\ w.default # Previous(i) => filters_changed
        /\ ((\A i \in 1..Len(widgets) : widgets[i].selected = widgets[i].default)
               /\ (pc = "loop" \/ variant # Groupby))
             => (filters_changed <=> \E i \in 1..Len(widgets) : widgets[i].default # Previous(i))

\* A running pass of the aggregation variant seeded a widget with what
\* pruning left of a longer selection
C16_Witness ==
    /\ InPass /\ pc = "loop" /\ variant = Groupby
    /\ \E i \in 1..Len(widgets) :
         /\ widgets[i].default # <<>>
         /\ Len(widgets[i].default) < Len(Previous(i))
         /\ widgets[i].selected = widgets[i].default

----------------------------------------------------------------------------

\* C17: when a display_filters pass has finished its loop, the persisted
\* selection of every filter is the selection its widget returned in the
\* pass; a widget that returned other than the pruned persisted value had it
\* updated and marked the pass dirty, and a widget that returned the
\* persisted value left it unchanged.
C17_SelectionCapture ==
    /\ InPass =>
         \A i \in 1..Len(widgets) :
            /\ Get(FS, widgets[i].name) = widgets[i].selected
            /\ widgets[i].selected # widgets[i].default => filters_changed
    /\ LoopDone =>
         /\ keys(FS) = [i \in 1..Len(widgets) |-> widgets[i].name]
         /\ ((\A i \in 1..Len(widgets) : widgets[i].default = Previous(i))
                /\ (pc = "loop" \/ variant # Groupby))
              => (filters_changed <=>
                    \E i \in 1..Len(widgets) : widgets[i].selected # widgets[i].default)

\* A finished loop in which one widget returned a new selection and another
\* returned the non-empty selection it was seeded with
C17_Witness ==
    /\ LoopDone
    /\ \E i, j \in 1..Len(widgets) :
         /\ widgets[i].selected # widgets[i].default
         /\ Get(FS, widgets[i].name) = widgets[i].selected
         /\ widgets[j].selected = widgets[j].default
         /\ widgets[j].default # <<>>
         /\ Get(FS, widgets[j].name) = Get(start, widgets[j].name)

----------------------------------------------------------------------------

\* The persisted aggregation state
AS == session_state[aggregation_name]

\* The step that ends the loop of a pass of the aggregation variant
EndOfPassG == variant = Groupby /\ op = "display_filters" /\ pc = "loop" /\ pc' = "idle"

\* C18: after a display_filters pass of the aggregation variant the
\* persisted aggregation state maps every filter of the filter state to the
\* value its checkbox returned in the pass, with the key set of the filter
\* state; a rerun is requested when a flag differs from the flag persisted
\* before, even if no selection changed; the flags are compared and
\* persisted only after all filters have been processed.
C18_AggregationFlags ==
    [][ /\ EndOfPassG =>
            /\ Len(aggregation_status) = Len(FS)
            /\ Range(AS') = Range(aggregation_status)
            /\ Range(keys(AS')) = Range(keys(FS'))
            /\ Range(AS) # Range(aggregation_status) => reruns' = <<"app">>
            /\ reruns' # <<>> <=> (filters_changed \/ Range(AS) # Range(aggregation_status))
        /\ (variant = Groupby /\ op' = "display_filters" /\ pc' = "loop") =>
            /\ AS' = AS
            /\ reruns' = <<>>
            /\ keys(aggregation_status') = [i \in 1..Len(widgets') |-> widgets'[i].name] ]_vars

\* A pass that changed no selection and requested a rerun for a flag
C18_Witness ==
    /\ PassEnded /\ variant = Groupby
    /\ FS = start
    /\ \A i \in 1..Len(widgets) : widgets[i].selected = widgets[i].default
    /\ reruns = <<"app">>
    /\ \E k \in Range(keys(AS)) : Get(AS, k) = TRUE
    /\ \E k \in Range(keys(AS)) : Get(AS, k) = FALSE

----------------------------------------------------------------------------

\* Every filter of the slot has an empty selection
AllEmpty(fs) == \A i \in 1..Len(fs) : fs[i][2] = <<>>

\* reset_filters of the aggregation variant removes the filter-state slot
\* only, and a construction that follows it recreates the slot with empty
\* selections under the flags persisted before
ResetFrameG ==
    [][ /\ (variant = Groupby /\ op' = "reset_filters") =>
            /\ ~present(session_state', filters_name)
            /\ DOMAIN session_state' = DOMAIN session_state \ {filters_name}
            /\ AS' = AS
        /\ (variant = Groupby /\ op = "reset_filters" /\ op' = "__init__") =>
            /\ present(session_state', filters_name)
            /\ AllEmpty(session_state'[filters_name])
            /\ AS' = AS ]_vars

\* C19: reset_filters of the aggregation variant removes only the
\* filter-state slot, leaving the aggregation-state slot and every flag in it
\* unchanged, so that after a reset followed by re-initialization the filters
\* are empty while the aggregation flags set before are still in effect.
C19_ResetKeepsFlags ==
    [][ /\ (variant = Groupby /\ op' = "reset_filters") =>
            /\ ~present(session_state', filters_name)
            /\ DOMAIN session_state' = DOMAIN session_state \ {filters_name}
            /\ AS' = AS
        /\ (variant = Groupby /\ op = "reset_filters" /\ op' \in Initializers) =>
            /\ present(session_state', filters_name)
            /\ AllEmpty(session_state'[filters_name])
            /\ AS' = AS ]_vars

----------------------------------------------------------------------------

\* C20: in every variant, at the end of a display_filters pass that requested
\* no rerun, every filter's persisted selection is within the filter's
\* option set recomputed from the final persisted state; a stale selection
\* exists at the end of a pass only if the pass requested a rerun.
C20_QuiescenceImpliesValidity ==
    PassEnded =>
        /\ reruns = <<>> => \A k \in Range(keys(FS)) : Range(Get(FS, k)) \subseteq OptionSet(FS, k)
        /\ Stale(FS) # {} => reruns # <<>>

\* A pass of three filters ended without a rerun under two selections that
\* restrict one another's options
C20_Witness ==
    /\ PassEnded /\ reruns = <<>>
    /\ Len(FS) = 3
    /\ \E j, k \in Range(keys(FS)) :
         /\ j # k
         /\ Get(FS, j) # <<>> /\ Get(FS, k) # <<>>
         /\ OptionSet(FS, j) # { df[i][j] : i \in 1..Len(df) }
         /\ OptionSet(FS, k) # { df[i][k] : i \in 1..Len(df) }

----------------------------------------------------------------------------

\* The total number of selected values of a filter state
Total(fs) == sum([i \in 1..Len(fs) |-> Len(fs[i][2])])

\* No selection of after holds a value, or more values, than it held in before
NoGain(before, after) ==
    /\ keys(after) = keys(before)
    /\ \A i \in 1..Len(before) :
         /\ Range(after[i][2]) \subseteq Range(before[i][2])
         /\ Len(after[i][2]) <= Len(before[i][2])

\* The filter state after the reruns that follow one another from fs, every
\* widget returning its default: n of them at most, fewer when a pass
\* requests none
RECURSIVE After(_, _)
After(fs, n) ==
    IF n = 0 THEN fs
    ELSE LET next == QuietPass(fs)
         IN IF next.filters_changed THEN After(next.fs, n - 1) ELSE fs

\* A pass of the independent or the hierarchical variant has ended
PassEndedBH == PassEnded /\ variant \in {Base, Hier}

\* From the filter state fs, passes in which every widget returns its seeded
\* default reach one that requests no rerun, within Total(fs) dirty passes;
\* the first of them gives no selection a value, and strictly decreases the
\* total number of selected values if it is dirty
Converges(fs) ==
    LET next == QuietPass(fs)
    IN /\ NoGain(fs, next.fs)
       /\ next.filters_changed => Total(next.fs) < Total(fs)
       /\ ~next.filters_changed => next.fs = fs
       /\ ~QuietPass(After(fs, Total(fs))).filters_changed

\* C21: from the filter state any pass of the independent or hierarchical
\* variant leaves, passes in which every widget returns its seeded default,
\* run for as long as a rerun is requested, reach a pass that requests none:
\* such a pass gives no selection a value, a dirty one strictly decreases the
\* total number of selected values, and after at most that many dirty passes
\* the next pass requests no rerun.  A pass of the model in which no widget
\* was touched is such a pass.  (A property of the state a pass has left,
\* evaluated on the display_df step that every such state has.)
C21_Convergence ==
    [][ (PassEndedBH /\ op' = "display_df") =>
          /\ Converges(FS)
          /\ ~interacted =>
                /\ QuietPass(start) = [fs |-> FS, filters_changed |-> filters_changed]
                /\ reruns # <<>> <=> QuietPass(start).filters_changed ]_vars

\* A pass in which the user changed a filter left a state from which the
\* next, untouched pass prunes a value, keeps another and requests a rerun
C21_Witness ==
    /\ PassEnded /\ variant = Base /\ interacted
    /\ QuietPass(FS).filters_changed
    /\ Total(QuietPass(FS).fs) < Total(FS)
    /\ Total(QuietPass(FS).fs) > 0
    /\ ~QuietPass(QuietPass(FS).fs).filters_changed

----------------------------------------------------------------------------

\* The step that ends the loop of a pass of the hierarchical variant
EndOfPassH ==
    /\ variant = Hier
    /\ op = "display_filters" /\ error = "none" /\ pc = "loop" /\ pc' = "idle"

\* C22: in the hierarchical variant, at the end of every display_filters
\* pass, also one that requests a rerun or in which the user changed several
\* filters, every filter's persisted selection is within the option set the
\* final selections of the filters before it in the declared order give it.
C22_HierarchicalValidity ==
    [][ EndOfPassH =>
          \A i \in 1..Len(session_state'[filters_name]) :
             Range(session_state'[filters_name][i][2])
                \subseteq PrefixOptions(session_state'[filters_name], i) ]_vars

\* A hierarchical pass in which the user changed two filters has requested a
\* rerun, the second filter holding a selection that the first restricts
C22_Witness ==
    /\ PassEnded /\ variant = Hier
    /\ reruns # <<>>
    /\ Len(widgets) >= 2
    /\ widgets[1].selected # widgets[1].default
    /\ widgets[2].selected # widgets[2].default
    /\ FS[2][2] # <<>>
    /\ PrefixOptions(FS, 2) # { df[j][keys(FS)[2]] : j \in 1..Len(df) }

----------------------------------------------------------------------------

\* A pass of the independent or the hierarchical variant has ended without
\* requesting a rerun
Quiescent == PassEndedBH /\ reruns = <<>>

\* C23: over a non-empty source, in the independent and the hierarchical
\* variant, the view display_df shows after a display_filters pass that
\* requested no rerun, every filter applied, has at least one row.
C23_NonEmptyAtQuiescence ==
    [][ (Quiescent /\ Len(df) > 0 /\ op' = "display_df") =>
          /\ error' = "none"
          /\ last_filter_df'.state = FS
          /\ last_filter_df'.except_filter = None
          /\ last_filter_df'.except_filter_tab = <<>>
          /\ Len(last_filter_df'.result) >= 1
          /\ Len(shown'.rows) >= 1
          /\ Len(shown'.rows) = Len(Filtered) ]_vars

\* A pass ended without a rerun under two selections that together leave one
\* row of the source
C23_Witness ==
    /\ Quiescent /\ variant = Base
    /\ \E j, k \in 1..Len(FS) : j # k /\ FS[j][2] # <<>> /\ FS[k][2] # <<>>
    /\ Len(df) = 3
    /\ Len(Filtered) = 1

----------------------------------------------------------------------------

\* The largest num_columns display_filters accepts
max_columns == 8

\* The counter when the i-th filter (counted from 0) is rendered in n columns
RECURSIVE counter_at(_, _)
counter_at(i, n) == IF i = 0 THEN 1 ELSE next_counter(counter_at(i - 1, n), n)

\* A loop iteration of a pass with location "columns" and a valid num_columns
RenderInColumns ==
    /\ op = "display_filters" /\ error = "none" /\ pc = "loop"
    /\ location = "columns"
    /\ num_columns.isint
    /\ num_columns.v >= 1 /\ num_columns.v <= max_columns
    /\ num_columns.v <= Len(start) + 1
    /\ Len(widgets') = Len(widgets) + 1

\* C24: with location "columns" and a valid num_columns n, the i-th filter in
\* iteration order (i from 0) is rendered in column i mod n, an index within
\* 0..n-1: the filters go round the columns and no column out of range is
\* addressed; the counter does so for every n up to the largest accepted.
C24_ColumnPlacement ==
    [][ RenderInColumns =>
          LET i == Len(widgets)
              w == widgets'[i + 1]
              n == num_columns.v
          IN /\ w.where = "columns"
             /\ w.col = i % n
             /\ w.col \in 0..(n - 1)
             /\ counter = counter_at(i, n)
             /\ i = 0 => \A m \in 1..max_columns : \A j \in 0..max_columns :
                            counter_at(j, m) - 1 = j % m ]_vars

\* Three filters rendered in two columns: the third is back in the first
C24_Witness ==
    /\ PassEnded /\ location = "columns" /\ num_columns.v = 2
    /\ Len(widgets) = 3
    /\ widgets[1].col = 0 /\ widgets[2].col = 1 /\ widgets[3].col = 0

====
